---- MODULE Spec2Model ----
(***************************************************************************)
(* State-machine model of src/dashboard.py, the BFP marketing dashboard.   *)
(*                                                                         *)
(* The script is a Streamlit page: every user interaction re-executes it   *)
(* from top to bottom.  One action of the model is one execution of the    *)
(* script: Run is the first execution (it loads the two feeds and every    *)
(* widget returns its default), the other actions change one widget and    *)
(* execute the script again on the cached record set.                      *)
(*                                                                         *)
(* Representation                                                          *)
(*  - a DataFrame is a bag of rows: everything the script does with a      *)
(*    frame (sum, unique + sorted, groupby, boolean masks, empty) is       *)
(*    insensitive to row order, and duplicates are kept;                   *)
(*  - a date is its proleptic Gregorian ordinal (datetime.date.toordinal), *)
(*    NaT is the value of an unparsable date cell;                         *)
(*  - measures are integers; a quotient is an exact fraction <<n, d>> in   *)
(*    lowest terms with d > 0, so that "exactly 0" and "exactly 1.0" are   *)
(*    the fractions <<0, 1>> and <<1, 1>>;                                 *)
(*  - a Python name that an execution may leave unassigned is a record     *)
(*    with a bound flag.                                                   *)
(* The measure cells of the feeds hold the numbers pd.to_numeric(...)      *)
(* .fillna(0) leaves there; 'channel bookings' and 'year' are never read   *)
(* after loading and are left out of the rows.                             *)
(***************************************************************************)
EXTENDS Integers, Sequences, FiniteSets, Bags, TLC

(***************************************************************************)
(* Bounds of the model.                                                    *)
(***************************************************************************)
\* rows in the two feeds together
MaxRows == 2
\* executions of the script after the first one
MaxRuns == 2

(***************************************************************************)
(* Exact fractions.                                                        *)
(***************************************************************************)
Abs(x) == IF x < 0 THEN -x ELSE x

RECURSIVE GCD(_, _)
GCD(a, b) == IF b = 0 THEN a ELSE GCD(b, a % b)

\* n / d for d > 0, in lowest terms
Frac(n, d) ==
    LET g == GCD(Abs(n), d)
    IN  <<n \div g, d \div g>>

Num(n) == <<n, 1>>
Zero == Num(0)
One == Num(1)

FSub(a, b) == Frac(a[1] * b[2] - b[1] * a[2], a[2] * b[2])

\* a / b for b > 0
FDiv(a, b) == Frac(a[1] * b[2], a[2] * b[1])

FPos(a) == a[1] > 0

(***************************************************************************)
(* Calendar: datetime.date as an ordinal (day 1 is 0001-01-01).            *)
(***************************************************************************)
Years == 2023..2025

IsLeap(y) == y % 4 = 0 /\ (y % 100 # 0 \/ y % 400 = 0)

DaysBeforeYear(y) ==
    LET p == y - 1
    IN  p * 365 + (p \div 4) - (p \div 100) + (p \div 400)

DaysInMonth(y, m) ==
    IF m = 2 THEN (IF IsLeap(y) THEN 29 ELSE 28)
    ELSE IF m \in {4, 6, 9, 11} THEN 30 ELSE 31

RECURSIVE DaysBeforeMonth(_, _)
DaysBeforeMonth(y, m) ==
    IF m = 1 THEN 0 ELSE DaysBeforeMonth(y, m - 1) + DaysInMonth(y, m - 1)

\* date(y, m, d)
Date(y, m, d) == DaysBeforeYear(y) + DaysBeforeMonth(y, m) + d

\* d.year, d.month
YearOf(o) == CHOOSE y \in Years : DaysBeforeYear(y) < o /\ o <= DaysBeforeYear(y + 1)

MonthOf(o) ==
    LET y == YearOf(o)
        n == o - DaysBeforeYear(y)
    IN  CHOOSE m \in 1..12 :
            DaysBeforeMonth(y, m) < n /\ n <= DaysBeforeMonth(y, m) + DaysInMonth(y, m)

\* d.weekday(): Monday is 0
Weekday(o) == (o + 6) % 7

(***************************************************************************)
(* Frames.                                                                 *)
(***************************************************************************)
\* pd.DataFrame(): no rows
EmptyFrame == EmptyBag

\* DataFrame.empty
Empty(frame) == DOMAIN frame = {}

\* frame[mask], the mask given as the rows it holds true for
Where(frame, mask) == [r \in mask |-> frame[r]]

RECURSIVE SumOver(_, _, _)
SumOver(frame, rows, col) ==
    IF rows = {} THEN 0
    ELSE LET r == CHOOSE x \in rows : TRUE
         IN  frame[r] * r[col] + SumOver(frame, rows \ {r}, col)

\* frame[col].sum()
Sum(frame, col) == SumOver(frame, DOMAIN frame, col)

\* frame[col].unique(), as a set
Unique(frame, col) == {r[col] : r \in DOMAIN frame}

(***************************************************************************)
(* sorted(): the names the model uses, in Python's string order.           *)
(***************************************************************************)
Alphabet ==
    <<"AU", "Auckland", "Brand", "Facebook", "Free", "Generic", "Google",
      "NZ", "Narnia", "Paid", "Victoria">>

Rank(s) == CHOOSE i \in 1..Len(Alphabet) : Alphabet[i] = s

RECURSIVE Sorted(_)
Sorted(S) ==
    IF S = {} THEN <<>>
    ELSE LET lo == CHOOSE x \in S : \A y \in S : Rank(x) <= Rank(y)
         IN  <<lo>> \o Sorted(S \ {lo})

Range(q) == {q[i] : i \in 1..Len(q)}

(***************************************************************************)
(* 3. Data loading and cleaning: get_combined_data.                        *)
(*                                                                         *)
(* A feed is its header for the date column and its rows; a raw row holds  *)
(* its date cell as the text <<year, month, day>>.  After pd.concat a row  *)
(* has a value only under the columns of the feed it came from: the model  *)
(* keeps, with each row, the header its date cell stands under.            *)
(***************************************************************************)
\* pd.NaT
NaT == 0

\* str(col).strip().lower(), on the headers the feeds use
NormalizeCol(h) ==
    CASE h = " Date " -> "date"
      [] h = "Day" -> "day"
      [] OTHER -> h

\* pd.to_datetime(cell, errors='coerce')
ToDatetime(cell) ==
    LET y == cell[1]
        m == cell[2]
        d == cell[3]
    IN  IF m \in 1..12 /\ d >= 1 /\ d <= DaysInMonth(y, m) THEN Date(y, m, d) ELSE NaT

\* the rows of a feed as a frame: each row under its feed's date header
FeedFrame(feed) ==
    LET Under(r) == [col |-> feed.date_col] @@ r
        rows == {Under(r) : r \in DOMAIN feed.rows}
    IN  [x \in rows |-> feed.rows[CHOOSE r \in DOMAIN feed.rows : Under(r) = x]]

\* the raw headers of a frame that hold a date cell
DateCols(frame) == {r.col : r \in DOMAIN frame}

\* mutant of Concat: equal rows are merged
ConcatDistinct(a, b) == SetToBag(DOMAIN a \cup DOMAIN b)

\* pd.concat([a, b], ignore_index=True): every row of both, none merged
Concat(a, b) == a (+) b

\* lines 43-48
Combine(excel, gsheet) ==
    IF ~Empty(excel) /\ ~Empty(gsheet) THEN Concat(excel, gsheet)
    ELSE IF ~Empty(excel) THEN excel
    ELSE gsheet

\* line 61: 'date' in df_combined.columns, after line 54
HasDateColumn(frame) == \E h \in DateCols(frame) : NormalizeCol(h) = "date"

\* line 54 gives two columns the name 'date': df_combined['date'] is then a
\* frame, and pd.to_datetime raises on it
DuplicateDateColumn(frame) ==
    Cardinality({h \in DateCols(frame) : NormalizeCol(h) = "date"}) > 1

\* lines 62-63: the parsed date of a row, NaT where its cell is missing or unparsable
ParsedDate(r) == IF NormalizeCol(r.col) = "date" THEN ToDatetime(r.cell) ELSE NaT

Record(r) ==
    [date |-> ParsedDate(r), channel |-> r.channel, campaign |-> r.campaign,
     account |-> r.account, offer_type |-> r.offer_type, region |-> r.region,
     impressions |-> r.impressions, clicks |-> r.clicks, cost |-> r.cost,
     channel_leads |-> r.channel_leads, ga_booking |-> r.ga_booking]

RECURSIVE CleanRows(_, _)
CleanRows(frame, rows) ==
    IF rows = {} THEN EmptyFrame
    ELSE LET r == CHOOSE x \in rows : TRUE
             rest == CleanRows(frame, rows \ {r})
         IN  IF ParsedDate(r) = NaT THEN rest
             ELSE rest (+) [x \in {Record(r)} |-> frame[r]]

\* lines 62-63: parse the dates, dropna(subset=['date'])
Clean(frame) == CleanRows(frame, DOMAIN frame)

\* get_combined_data: "halted" is st.stop(), "raised" an uncaught exception
LoadOutcome(frame) ==
    IF Empty(frame) THEN "halted"
    ELSE IF ~HasDateColumn(frame) THEN "halted"
    ELSE IF DuplicateDateColumn(frame) THEN "raised"
    ELSE "returned"

(***************************************************************************)
(* 4. Sidebar and filters: what the widgets offer and return by default.   *)
(***************************************************************************)
\* line 79
ChannelOptions(frame) == <<"All">> \o Sorted(Unique(frame, "channel"))

\* lines 80-85: the option at google_index
DefaultChannel(frame) ==
    IF "Google" \in Range(ChannelOptions(frame)) THEN "Google" ELSE "All"

\* mutant of CampaignOptions: the cascade is forgotten
CampaignOptionsOfAll(frame, ch) == Sorted(Unique(frame, "campaign"))

\* lines 88-91
CampaignOptions(frame, ch) ==
    IF ch = "All" THEN Sorted(Unique(frame, "campaign"))
    ELSE LET of_channel == {r \in DOMAIN frame : r.channel = ch}
         IN  Sorted(Unique(Where(frame, of_channel), "campaign"))

\* line 96
AccountOptions(frame) == <<"All">> \o Sorted(Unique(frame, "account"))

\* line 99
OfferTypeOptions(frame) == <<"All">> \o Sorted(Unique(frame, "offer_type"))

\* df["date"].min(), df["date"].max(): NaT on a frame without rows
MinDate(frame) ==
    IF Empty(frame) THEN NaT
    ELSE CHOOSE d \in Unique(frame, "date") : \A e \in Unique(frame, "date") : d <= e

MaxDate(frame) ==
    IF Empty(frame) THEN NaT
    ELSE CHOOSE d \in Unique(frame, "date") : \A e \in Unique(frame, "date") : d >= e

\* lines 105, 111: value=(df["date"].min(), df["date"].max())
DefaultRange(frame) == <<MinDate(frame), MaxDate(frame)>>

\* line 108: None (an emptied date_input returns (), which is falsy alike)
None == <<>>

(***************************************************************************)
(* 5. Data processing and KPI calculation.                                 *)
(***************************************************************************)
\* a name no statement has assigned in this execution, and an assigned one
Unbound == [bound |-> FALSE]
Bound(v) == [bound |-> TRUE, val |-> v]

\* mutant of RatioOrZero: floor division
RatioFloored(n, d) == IF d > 0 THEN Num(n \div d) ELSE Zero

\* numerator / denominator if denominator > 0 else 0
RatioOrZero(n, d) == IF d > 0 THEN Frac(n, d) ELSE Zero

\* lines 116-120
calculate_kpis(frame) ==
    LET cost == Sum(frame, "cost")
        bookings == Sum(frame, "ga_booking")
    IN  [cost |-> cost, booking |-> bookings, cpb |-> RatioOrZero(cost, bookings)]

SummedCols == {"impressions", "clicks", "cost", "channel_leads", "ga_booking"}

\* lines 122-128
calculate_summary_kpis(group) ==
    LET summary == [c \in SummedCols |-> Sum(group, c)]
    IN  [c \in SummedCols |-> Num(summary[c])] @@
        [ctr |-> RatioOrZero(summary["clicks"], summary["impressions"]),
         cpc |-> RatioOrZero(summary["cost"], summary["clicks"]),
         cpb |-> RatioOrZero(summary["cost"], summary["ga_booking"]),
         cvr |-> RatioOrZero(summary["channel_leads"], summary["clicks"])]

\* lines 131-139
base_mask(r, ch, campaigns, acct, offer) ==
    /\ r.date # NaT
    /\ (ch # "All" => r.channel = ch)
    /\ (campaigns # {} => r.campaign \in campaigns)
    /\ (acct # "All" => r.account = acct)
    /\ (offer # "All" => r.offer_type = offer)

\* mutant of period_mask: the end of the period is excluded
period_mask_open(r, ch, campaigns, acct, offer, range) ==
    /\ base_mask(r, ch, campaigns, acct, offer)
    /\ r.date >= range[1]
    /\ r.date < range[2]

\* lines 145, 154: base_mask & (date >= start) & (date <= end)
period_mask(r, ch, campaigns, acct, offer, range) ==
    /\ base_mask(r, ch, campaigns, acct, offer)
    /\ r.date >= range[1]
    /\ r.date <= range[2]

\* lines 159-161
start_of_year(now) == Date(YearOf(now), 1, 1)
start_of_month(now) == Date(YearOf(now), MonthOf(now), 1)
start_of_week(now) == now - Weekday(now)

\* lines 163-165: df[df['date'].dt.date >= start]
Since(frame, start) ==
    Where(frame, {r \in DOMAIN frame : r.date >= start})

\* None, and a value that is not None
Absent == [present |-> FALSE]
Present(v) == [present |-> TRUE, val |-> v]

(***************************************************************************)
(* 6. The dashboard sections.                                              *)
(***************************************************************************)
\* lines 184-186: the delta handed to st.metric
MetricDelta(delta, enabled) == IF enabled THEN Present(delta) ELSE Absent

\* mutant of ShowsPeriod: the section is not guarded
ShowsPeriodAlways(main) == TRUE

\* line 177
ShowsPeriod(main) == ~Empty(main)

\* lines 177-188, Custom Period Analysis; raised: a NameError
CustomPeriodAnalysis(main, main_total, compare_total, enabled) ==
    IF ShowsPeriod(main)
    THEN IF ~main_total.bound \/ ~compare_total.bound
         THEN [raised |-> TRUE]
         ELSE LET m == main_total.val
                  c == compare_total.val
              IN  [raised |-> FALSE, shown |-> TRUE,
                   cost |-> m.cost, booking |-> m.booking, cpb |-> m.cpb,
                   delta_cost |-> MetricDelta(m.cost - c.cost, enabled),
                   delta_booking |-> MetricDelta(m.booking - c.booking, enabled),
                   delta_cpb |-> MetricDelta(FSub(m.cpb, c.cpb), enabled)]
    ELSE [raised |-> FALSE, shown |-> FALSE]

\* lines 231, 234: frame.groupby("region")[...].apply(calculate_summary_kpis)
RegionSummary(frame) ==
    [g \in Unique(frame, "region") |->
        calculate_summary_kpis(Where(frame, {r \in DOMAIN frame : r.region = g}))]

\* line 235
regions_to_display ==
    <<"New South Wales", "Victoria", "Western Australia", "Queensland", "Tasmania",
      "South Australia", "Australian Capital Territory", "Auckland", "Wellington",
      "Hawke's Bay", "Tasman", "Waikato", "Manawatu-Whanganui", "Otago", "Nelson",
      "Bay of Plenty", "Canterbury">>

\* mutant of Displayed: the allow-list is not applied
DisplayedAll(summary) == summary

\* lines 236, 238: summary[summary.index.isin(regions_to_display)]
Displayed(summary) ==
    [g \in {x \in DOMAIN summary : x \in Range(regions_to_display)} |-> summary[g]]

\* line 247
Metrics == {"impressions", "clicks", "cost", "ga_booking", "ctr", "cpc", "cpb", "cvr"}

\* mutant of PercentChange: growth from a zero baseline reads as no change
PercentChangeNoSentinel(main_val, compare_val) ==
    IF FPos(compare_val) THEN FDiv(FSub(main_val, compare_val), compare_val)
    ELSE Zero

\* lines 264-265
PercentChange(main_val, compare_val) ==
    IF FPos(compare_val) THEN FDiv(FSub(main_val, compare_val), compare_val)
    ELSE IF main_val = Zero THEN Zero ELSE One

\* line 258
HasComparison(region, compare_data) ==
    compare_data.present /\ region \in DOMAIN compare_data.val

\* lines 253-269: one cell of the table
Cell(region, metric, main_row, compare_data) ==
    IF HasComparison(region, compare_data)
    THEN LET compare_val == compare_data.val[region][metric]
         IN  [main |-> main_row[metric], compare |-> Present(compare_val),
              percent_change |-> Present(PercentChange(main_row[metric], compare_val))]
    ELSE [main |-> main_row[metric], compare |-> Absent, percent_change |-> Absent]

\* mutant of generate_html_table: only the regions of both summaries are rendered
generate_html_table_joined(main_data, compare_data) ==
    LET both == IF compare_data.present
                THEN DOMAIN main_data \cap DOMAIN compare_data.val
                ELSE DOMAIN main_data
    IN  [region \in both |->
            [metric \in Metrics |->
                Cell(region, metric, main_data[region], compare_data)]]

\* lines 246-272: the rows of the table, by region
generate_html_table(main_data, compare_data) ==
    [region \in DOMAIN main_data |->
        [metric \in Metrics |-> Cell(region, metric, main_data[region], compare_data)]]

\* lines 230-279, State Performance; raised: a NameError
StatePerformance(main, compare, enabled) ==
    IF ~Empty(main)
    THEN IF enabled /\ ~compare.bound
         THEN [raised |-> TRUE]
         ELSE LET summary_main == Displayed(RegionSummary(main))
                  summary_compare ==
                      IF enabled /\ ~Empty(compare.val)
                      THEN Present(Displayed(RegionSummary(compare.val)))
                      ELSE Absent
              IN  [raised |-> FALSE, shown |-> TRUE,
                   rows |-> IF enabled /\ summary_compare.present
                            THEN generate_html_table(summary_main, summary_compare)
                            ELSE generate_html_table(summary_main, Absent)]
    ELSE [raised |-> FALSE, shown |-> FALSE]

(***************************************************************************)
(* State.                                                                  *)
(***************************************************************************)
VARIABLES
    df_excel,            \* the file feed: [date_col, rows]
    df_gsheet,           \* the sheet feed: [date_col, rows]
    today,               \* pd.Timestamp.now().date()
    pc,                  \* "start", "ready", "halted" (st.stop()), "raised" (exception)
    runs,                \* executions of the script after the first
    df_combined,         \* lines 43-48
    df,                  \* line 70
    channel, selected_campaigns, account, offer_type,
    date_range, compare_enabled, compare_date_range,
    campaign_options,    \* lines 88-91
    df_main, kpis_main_total, kpis_compare_total, df_compare,
    kpis_ytd, kpis_mtd, kpis_wtd,
    period_metrics,      \* section 1, Custom Period Analysis
    glance,              \* section 2, Performance At-a-Glance
    html_table           \* section 3, State Performance

feeds == <<df_excel, df_gsheet, today>>
loaded == <<df_combined, df>>
widgets ==
    <<channel, selected_campaigns, account, offer_type, date_range, compare_enabled,
      compare_date_range>>
computed ==
    <<campaign_options, df_main, kpis_main_total, kpis_compare_total, df_compare,
      kpis_ytd, kpis_mtd, kpis_wtd, period_metrics, glance, html_table>>
vars == <<feeds, pc, runs, loaded, widgets, computed>>

(***************************************************************************)
(* Lines 131-279 for given widget values, on the record set frame.         *)
(***************************************************************************)
\* lines 142-146
MainFrame(frame, ch, campaigns, acct, offer, range) ==
    IF Len(range) = 2
    THEN LET main_mask ==
                 {r \in DOMAIN frame : period_mask(r, ch, campaigns, acct, offer, range)}
         IN  Where(frame, main_mask)
    ELSE EmptyFrame

\* line 152
CompareGiven(enabled, range) == enabled /\ range # None /\ Len(range) = 2

\* lines 151-155
CompareFrame(frame, ch, campaigns, acct, offer, enabled, range) ==
    IF CompareGiven(enabled, range)
    THEN LET compare_mask ==
                 {r \in DOMAIN frame : period_mask(r, ch, campaigns, acct, offer, range)}
         IN  Where(frame, compare_mask)
    ELSE EmptyFrame

Execute(frame, ch, campaigns, acct, offer, range, enabled, compare_range) ==
    LET main == MainFrame(frame, ch, campaigns, acct, offer, range)
        main_total == IF Len(range) = 2 THEN Bound(calculate_kpis(main)) ELSE Unbound
        compare ==
            IF Len(range) = 2
            THEN Bound(CompareFrame(frame, ch, campaigns, acct, offer, enabled,
                                    compare_range))
            ELSE Unbound
        compare_total ==
            IF Len(range) = 2
            THEN Bound(IF CompareGiven(enabled, compare_range)
                       THEN calculate_kpis(compare.val)
                       ELSE [cost |-> 0, booking |-> 0, cpb |-> Zero])
            ELSE Unbound
        ytd == calculate_kpis(Since(frame, start_of_year(today)))
        mtd == calculate_kpis(Since(frame, start_of_month(today)))
        wtd == calculate_kpis(Since(frame, start_of_week(today)))
        section1 == CustomPeriodAnalysis(main, main_total, compare_total, enabled)
        section3 ==
            IF section1.raised THEN [raised |-> TRUE]
            ELSE StatePerformance(main, compare, enabled)
    IN  /\ channel' = ch
        /\ selected_campaigns' = campaigns
        /\ account' = acct
        /\ offer_type' = offer
        /\ date_range' = range
        /\ compare_enabled' = enabled
        /\ compare_date_range' = compare_range
        /\ campaign_options' = Bound(CampaignOptions(frame, ch))
        /\ df_main' = Bound(main)
        /\ kpis_main_total' = main_total
        /\ df_compare' = compare
        /\ kpis_compare_total' = compare_total
        /\ kpis_ytd' = Bound(ytd)
        /\ kpis_mtd' = Bound(mtd)
        /\ kpis_wtd' = Bound(wtd)
        /\ period_metrics' = IF section1.raised THEN Unbound ELSE Bound(section1)
        /\ glance' = IF section1.raised THEN Unbound
                     ELSE Bound([WTD |-> wtd, MTD |-> mtd, YTD |-> ytd])
        /\ html_table' = IF section3.raised THEN Unbound ELSE Bound(section3)
        /\ pc' = IF section1.raised \/ section3.raised THEN "raised" ELSE "ready"

(***************************************************************************)
(* The feeds and the clock the model starts from.                          *)
(***************************************************************************)
RECURSIVE BagsOfSize(_, _)
BagsOfSize(S, n) ==
    IF n = 0 THEN {EmptyBag}
    ELSE {b (+) SetToBag({x}) : b \in BagsOfSize(S, n - 1), x \in S}

\* a feed without rows, and the feeds of 1..most rows of pool
FeedsOf(pool, headers, most) ==
    {[date_col |-> "date", rows |-> EmptyBag]} \cup
    {[date_col |-> h, rows |-> b] :
        h \in headers, b \in UNION {BagsOfSize(pool, n) : n \in 1..most}}

RawRow(cell, ch, campaign, acct, offer, region, measures) ==
    [cell |-> cell, channel |-> ch, campaign |-> campaign, account |-> acct,
     offer_type |-> offer, region |-> region,
     impressions |-> measures[1], clicks |-> measures[2], cost |-> measures[3],
     channel_leads |-> measures[4], ga_booking |-> measures[5]]

\* Wednesday 2024-02-07: the week starts on 02-05, the month on 02-01
Todays == {Date(2024, 2, 7)}

\* one row and the rows that differ from it in one facet or in the date
FilterPool ==
    {RawRow(<<2024, 2, 6>>, "Google", "Brand", "AU", "Free", "Victoria", <<4, 2, 6, 1, 2>>),
     RawRow(<<2024, 2, 6>>, "Facebook", "Brand", "AU", "Free", "Victoria", <<4, 2, 5, 1, 1>>),
     RawRow(<<2024, 2, 6>>, "Google", "Generic", "AU", "Free", "Victoria", <<4, 2, 4, 1, 1>>),
     RawRow(<<2024, 2, 6>>, "Google", "Brand", "NZ", "Free", "Auckland", <<4, 2, 3, 1, 1>>),
     RawRow(<<2024, 2, 6>>, "Google", "Brand", "AU", "Paid", "Victoria", <<4, 2, 2, 1, 1>>),
     RawRow(<<2024, 1, 15>>, "Google", "Brand", "AU", "Free", "Victoria", <<4, 2, 1, 1, 1>>)}

InitWith(pool, headers) ==
    /\ df_excel \in FeedsOf(pool, headers, MaxRows)
    /\ df_gsheet \in FeedsOf(pool, headers, MaxRows - BagCardinality(df_excel.rows))
    /\ today \in Todays
    /\ pc = "start"
    /\ runs = 0
    /\ df_combined = Unbound
    /\ df = Unbound
    /\ channel = "All"
    /\ selected_campaigns = {}
    /\ account = "All"
    /\ offer_type = "All"
    /\ date_range = None
    /\ compare_enabled = TRUE
    /\ compare_date_range = None
    /\ campaign_options = Unbound
    /\ df_main = Unbound
    /\ kpis_main_total = Unbound
    /\ kpis_compare_total = Unbound
    /\ df_compare = Unbound
    /\ kpis_ytd = Unbound
    /\ kpis_mtd = Unbound
    /\ kpis_wtd = Unbound
    /\ period_metrics = Unbound
    /\ glance = Unbound
    /\ html_table = Unbound

\* one account, channel and campaign; regions inside and outside the allow-list,
\* measures with zero and with negative sums (adjustment rows)
TablePool ==
    {RawRow(<<2024, 2, 6>>, "Google", "Brand", "AU", "Free", "Victoria", <<4, 2, 6, 1, 2>>),
     RawRow(<<2024, 1, 15>>, "Google", "Brand", "AU", "Free", "Victoria", <<0, 0, 3, 1, 0>>),
     RawRow(<<2024, 1, 15>>, "Google", "Brand", "AU", "Free", "Victoria", <<0, 0, 0, 0, 0>>),
     RawRow(<<2024, 2, 6>>, "Google", "Brand", "AU", "Free", "Auckland", <<3, 1, 4, 1, 1>>),
     RawRow(<<2024, 2, 6>>, "Google", "Brand", "AU", "Free", "Narnia", <<5, 2, 7, 1, 1>>),
     RawRow(<<2024, 1, 15>>, "Google", "Brand", "AU", "Free", "Victoria", <<2, -1, -2, 0, -1>>)}

\* rows with a date, and one whose date does not parse (30 February)
LoadPool ==
    {RawRow(<<2024, 2, 6>>, "Google", "Brand", "AU", "Free", "Victoria", <<4, 2, 6, 1, 2>>),
     RawRow(<<2024, 1, 15>>, "Facebook", "Generic", "NZ", "Paid", "Auckland", <<3, 1, 4, 1, 1>>),
     RawRow(<<2024, 2, 30>>, "Google", "Brand", "AU", "Free", "Victoria", <<1, 1, 1, 1, 1>>)}

Headers == {"date", " Date ", "Day"}

Init == InitWith(FilterPool, {"date"})
InitTable == InitWith(TablePool, {"date"})
InitLoad == InitWith(LoadPool, Headers)

(***************************************************************************)
(* Actions: one execution of the script each.                              *)
(***************************************************************************)
\* The first execution: get_combined_data, then every widget at its default.
\* On a record set without rows the date_input of line 105 is given NaT
\* bounds; whether Streamlit accepts them is not decided by this source.
Run ==
    /\ pc = "start"
    /\ LET combined == Combine(FeedFrame(df_excel), FeedFrame(df_gsheet))
           outcome == LoadOutcome(combined)
           clean == Clean(combined)
       IN  /\ df_combined' = Bound(combined)
           /\ IF outcome = "returned"
              THEN /\ df' = Bound(clean)
                   /\ \E accepted \in (IF Empty(clean) THEN BOOLEAN ELSE {TRUE}) :
                        IF accepted
                        THEN Execute(clean, DefaultChannel(clean), {}, "All", "All",
                                     DefaultRange(clean), TRUE, DefaultRange(clean))
                        ELSE /\ pc' = "raised"
                             /\ channel' = DefaultChannel(clean)
                             /\ campaign_options' =
                                    Bound(CampaignOptions(clean, DefaultChannel(clean)))
                             /\ UNCHANGED <<selected_campaigns, account, offer_type,
                                            date_range, compare_enabled,
                                            compare_date_range, df_main,
                                            kpis_main_total, kpis_compare_total,
                                            df_compare, kpis_ytd, kpis_mtd, kpis_wtd,
                                            period_metrics, glance, html_table>>
              ELSE /\ pc' = outcome
                   /\ df' = Unbound
                   /\ UNCHANGED <<widgets, computed>>
    /\ UNCHANGED <<feeds, runs>>

\* what every later execution shares: the cached record set, one more run
Rerun ==
    /\ pc = "ready"
    /\ runs < MaxRuns
    /\ runs' = runs + 1
    /\ UNCHANGED <<feeds, loaded>>

\* line 85: another channel is selected.  The campaign multiselect is a new
\* widget when its options change, and returns its default, [].
SelectChannel(ch) ==
    /\ Rerun
    /\ ch \in Range(ChannelOptions(df.val))
    /\ ch # channel
    /\ LET kept == IF CampaignOptions(df.val, ch) = campaign_options.val
                   THEN selected_campaigns ELSE {}
       IN  Execute(df.val, ch, kept, account, offer_type, date_range, compare_enabled,
                   compare_date_range)

\* line 93: a campaign is added to or removed from the selection
ToggleCampaign(c) ==
    /\ Rerun
    /\ c \in Range(campaign_options.val)
    /\ LET picked == IF c \in selected_campaigns THEN selected_campaigns \ {c}
                     ELSE selected_campaigns \cup {c}
       IN  Execute(df.val, channel, picked, account, offer_type, date_range,
                   compare_enabled, compare_date_range)

\* line 97
SelectAccount(a) ==
    /\ Rerun
    /\ a \in Range(AccountOptions(df.val))
    /\ a # account
    /\ Execute(df.val, channel, selected_campaigns, a, offer_type, date_range,
               compare_enabled, compare_date_range)

\* line 100
SelectOfferType(o) ==
    /\ Rerun
    /\ o \in Range(OfferTypeOptions(df.val))
    /\ o # offer_type
    /\ Execute(df.val, channel, selected_campaigns, account, o, date_range,
               compare_enabled, compare_date_range)

\* a click in a range date_input: on a complete range it starts a new one,
\* which the widget returns as a 1-tuple; on a 1-tuple it sets the end
Picked(range, d) == IF Len(range) = 2 THEN <<d>> ELSE <<range[1], d>>

CanPick(range, d) ==
    /\ d \in Unique(df.val, "date")
    /\ Len(range) = 1 => d >= range[1]

\* line 105
PickMainDate(d) ==
    /\ Rerun
    /\ CanPick(date_range, d)
    /\ Execute(df.val, channel, selected_campaigns, account, offer_type,
               Picked(date_range, d), compare_enabled, compare_date_range)

\* lines 107-111: the checkbox; the comparison date_input exists only while
\* it is ticked, and starts at its default
ToggleCompare ==
    /\ Rerun
    /\ Execute(df.val, channel, selected_campaigns, account, offer_type, date_range,
               ~compare_enabled,
               IF ~compare_enabled THEN DefaultRange(df.val) ELSE None)

\* line 111
PickCompareDate(d) ==
    /\ Rerun
    /\ compare_enabled
    /\ CanPick(compare_date_range, d)
    /\ Execute(df.val, channel, selected_campaigns, account, offer_type, date_range,
               compare_enabled, Picked(compare_date_range, d))

Names == Range(Alphabet) \cup {"All"}
Dates == {Date(2024, 1, 15), Date(2024, 2, 6)}

Next ==
    \/ Run
    \/ \E ch \in Names : SelectChannel(ch)
    \/ \E c \in Names : ToggleCampaign(c)
    \/ \E a \in Names : SelectAccount(a)
    \/ \E o \in Names : SelectOfferType(o)
    \/ \E d \in Dates : PickMainDate(d)
    \/ ToggleCompare
    \/ \E d \in Dates : PickCompareDate(d)

Spec == Init /\ [][Next]_vars
SpecTable == InitTable /\ [][Next]_vars
SpecLoad == InitLoad /\ [][Next]_vars

(***************************************************************************)
(* Properties.  The script has run to its end in the states where pc is    *)
(* "ready".                                                                *)
(***************************************************************************)
Ready == pc = "ready"

\* the Filter Engine predicate of the current Filter Selection
Include(r) ==
    /\ r.date # NaT
    /\ (channel = "All" \/ r.channel = channel)
    /\ (selected_campaigns = {} \/ r.campaign \in selected_campaigns)
    /\ (account = "All" \/ r.account = account)
    /\ (offer_type = "All" \/ r.offer_type = offer_type)

\* the rows of frame that satisfy P, each as often as frame holds it
Exactly(sub, frame, P(_)) ==
    /\ DOMAIN sub = {r \in DOMAIN frame : P(r)}
    /\ \A r \in DOMAIN sub : sub[r] = frame[r]

\* the totals of a frame's rows that satisfy P, summed row by row
TotalsOf(frame, P(_)) ==
    LET rows == {r \in DOMAIN frame : P(r)}
        cost == SumOver(frame, rows, "cost")
        bookings == SumOver(frame, rows, "ga_booking")
    IN  [cost |-> cost, booking |-> bookings]

(* C3: the WTD, MTD and YTD aggregates are computed over exactly the records
   that satisfy the Filter Engine predicate of the current selection and are
   dated on or after the start of the week, month and year.  The code cuts
   the three windows from the whole record set: this statement fails. *)
C3_WindowsAreFiltered ==
    Ready =>
        LET Wtd(r) == Include(r) /\ r.date >= start_of_week(today)
            Mtd(r) == Include(r) /\ r.date >= start_of_month(today)
            Ytd(r) == Include(r) /\ r.date >= start_of_year(today)
        IN  /\ kpis_wtd.val.cost = TotalsOf(df.val, Wtd).cost
            /\ kpis_wtd.val.booking = TotalsOf(df.val, Wtd).booking
            /\ kpis_mtd.val.cost = TotalsOf(df.val, Mtd).cost
            /\ kpis_mtd.val.booking = TotalsOf(df.val, Mtd).booking
            /\ kpis_ytd.val.cost = TotalsOf(df.val, Ytd).cost
            /\ kpis_ytd.val.booking = TotalsOf(df.val, Ytd).booking

\* no comparison entry in the total KPIs, none in the region table
NoDelta ==
    period_metrics.val.shown =>
        /\ ~period_metrics.val.delta_cost.present
        /\ ~period_metrics.val.delta_booking.present
        /\ ~period_metrics.val.delta_cpb.present

BareTable ==
    html_table.val.shown =>
        \A g \in DOMAIN html_table.val.rows : \A m \in Metrics :
            /\ ~html_table.val.rows[g][m].compare.present
            /\ ~html_table.val.rows[g][m].percent_change.present

ComparisonPeriodGiven == compare_date_range # None /\ Len(compare_date_range) = 2

(* C4: with the comparison toggle off, or the comparison period absent or
   incomplete, no comparison output is produced: the total KPIs carry no
   delta and the region table holds bare aggregates.  With the toggle on and
   a one-ended comparison period the code shows deltas against a zero
   baseline: this statement fails. *)
C4_NoComparisonOutput ==
    (Ready /\ (~compare_enabled \/ ~ComparisonPeriodGiven)) => (NoDelta /\ BareTable)

(* C5: a record is in the main-period subset, and in the comparison-period
   subset when one is computed, exactly when it has a valid date, matches
   every facet of the Filter Selection and is dated within the closed
   interval of the period. *)
C5_PeriodSubsets ==
    Ready =>
        LET InMain(r) ==
                Include(r) /\ date_range[1] <= r.date /\ r.date <= date_range[2]
            InCompare(r) ==
                /\ Include(r)
                /\ compare_date_range[1] <= r.date
                /\ r.date <= compare_date_range[2]
        IN  /\ Len(date_range) = 2 => Exactly(df_main.val, df.val, InMain)
            /\ (Len(date_range) = 2 /\ compare_enabled /\ ComparisonPeriodGiven)
                   => Exactly(df_compare.val, df.val, InCompare)

\* a channel is selected, the main period ends on the date of a record it
\* holds and before the date of a record it leaves out for that alone
C5_Witness ==
    /\ Ready
    /\ Len(date_range) = 2
    /\ channel # "All"
    /\ \E r \in DOMAIN df_main.val : r.date = date_range[2]
    /\ \E r \in DOMAIN df.val : Include(r) /\ r.date > date_range[2]

IsSorted(q) == \A i \in 1..(Len(q) - 1) : Rank(q[i]) < Rank(q[i + 1])

(* C8: after any sequence of channel selections the campaign option list is
   the sorted list of the distinct campaigns of the records of the selected
   channel, and of all records when the channel is "All". *)
C8_CampaignOptions ==
    campaign_options.bound =>
        /\ Range(campaign_options.val) =
               {r.campaign : r \in {x \in DOMAIN df.val :
                                        channel = "All" \/ x.channel = channel}}
        /\ IsSorted(campaign_options.val)

\* a channel other than the default has been selected, and it offers fewer
\* campaigns than the record set holds
C8_Witness ==
    /\ Ready
    /\ runs > 0
    /\ channel = "Facebook"
    /\ \E r \in DOMAIN df.val : r.channel = "Google"
    /\ Range(campaign_options.val) # Unique(df.val, "campaign")

(* C10: with a one-ended main date range the execution ends without an
   error and without reading an unassigned name, shows no main-period totals,
   no deltas and no region table, and still produces the WTD, MTD and YTD
   aggregates. *)
C10_IncompleteMainRange ==
    (pc \in {"ready", "raised"} /\ Len(date_range) = 1) =>
        /\ pc = "ready"
        /\ ~kpis_main_total.bound
        /\ ~kpis_compare_total.bound
        /\ ~df_compare.bound
        /\ period_metrics.bound /\ ~period_metrics.val.shown
        /\ html_table.bound /\ ~html_table.val.shown
        /\ kpis_wtd.bound /\ kpis_mtd.bound /\ kpis_ytd.bound
        /\ glance = Bound([WTD |-> kpis_wtd.val, MTD |-> kpis_mtd.val,
                           YTD |-> kpis_ytd.val])

\* a one-ended main range over records that the full range would select, with
\* the comparison still ticked
C10_Witness ==
    /\ pc \in {"ready", "raised"}
    /\ Len(date_range) = 1
    /\ compare_enabled
    /\ \E r \in DOMAIN df.val : Include(r)
    /\ kpis_ytd.val.cost > 0

\* q is the quotient n / d
IsQuotient(q, n, d) == q[2] > 0 /\ q[1] * d = n * q[2]

\* the rows of a frame in region g
RegionRows(frame, g) == {r \in DOMAIN frame : r.region = g}

\* P(ratio, numerator sum, denominator sum) of the four ratios of a region's
\* summary, read from the table's cells of kind part over the rows of frame
SummaryRatios(P(_, _, _), g, frame, Part(_)) ==
    LET rows == RegionRows(frame, g)
        sum(c) == SumOver(frame, rows, c)
        cell(m) == Part(html_table.val.rows[g][m])
    IN  /\ P(cell("ctr"), sum("clicks"), sum("impressions"))
        /\ P(cell("cpc"), sum("cost"), sum("clicks"))
        /\ P(cell("cpb"), sum("cost"), sum("ga_booking"))
        /\ P(cell("cvr"), sum("channel_leads"), sum("clicks"))

MainPart(cell) == cell.main
ComparePart(cell) == cell.compare.val

\* P of every ratio field the execution has produced
EveryRatio(P(_, _, _)) ==
    LET Cpb(kpis, frame, rows) ==
            P(kpis.cpb, SumOver(frame, rows, "cost"), SumOver(frame, rows, "ga_booking"))
        From(start) == {r \in DOMAIN df.val : r.date >= start}
    IN  /\ kpis_main_total.bound =>
               Cpb(kpis_main_total.val, df_main.val, DOMAIN df_main.val)
        /\ kpis_compare_total.bound =>
               Cpb(kpis_compare_total.val, df_compare.val, DOMAIN df_compare.val)
        /\ Cpb(kpis_wtd.val, df.val, From(start_of_week(today)))
        /\ Cpb(kpis_mtd.val, df.val, From(start_of_month(today)))
        /\ Cpb(kpis_ytd.val, df.val, From(start_of_year(today)))
        /\ html_table.val.shown =>
               \A g \in DOMAIN html_table.val.rows :
                   /\ SummaryRatios(P, g, df_main.val, MainPart)
                   /\ html_table.val.rows[g]["ctr"].compare.present =>
                          SummaryRatios(P, g, df_compare.val, ComparePart)

ZeroOnZeroElseQuotient(q, n, d) == IF d = 0 THEN q = Zero ELSE IsQuotient(q, n, d)
ZeroUnlessPositive(q, n, d) == IF d > 0 THEN IsQuotient(q, n, d) ELSE q = Zero

(* C1 as stated: every ratio field of calculate_kpis and of
   calculate_summary_kpis is exactly 0 when its denominator sums to 0, and is
   the numerator sum divided by the denominator sum otherwise.  A negative
   denominator sum yields 0 as well: this statement fails. *)
C1_ZeroOnlyOnZeroDenominator == Ready => EveryRatio(ZeroOnZeroElseQuotient)

(* C1 as amended: every ratio field is exactly 0 when its denominator sum is
   not positive (zero or negative), whatever the numerator sum, and is the
   numerator sum divided by the denominator sum when it is positive. *)
C1_RatioOrZero == Ready => EveryRatio(ZeroUnlessPositive)

\* the table shows a region whose clicks sum to a negative number under a
\* non-zero cost, with a cost per click of 0, and the year-to-date cost per
\* booking is a quotient over a positive sum
C1_Witness ==
    /\ Ready
    /\ html_table.val.shown
    /\ \E g \in DOMAIN html_table.val.rows :
          /\ SumOver(df_main.val, RegionRows(df_main.val, g), "clicks") < 0
          /\ SumOver(df_main.val, RegionRows(df_main.val, g), "cost") # 0
          /\ html_table.val.rows[g]["cpc"].main = Zero
    /\ kpis_ytd.val.booking > 0
    /\ kpis_ytd.val.cpb # Zero

(* C2: in every comparison entry, percent_change is (main - compare) /
   compare when compare > 0, exactly 1.0 when compare is 0 and main > 0, and
   exactly 0 when both are 0. *)
C2_PercentChange ==
    (Ready /\ html_table.val.shown) =>
        \A g \in DOMAIN html_table.val.rows : \A m \in Metrics :
            LET cell == html_table.val.rows[g][m]
                main == cell.main
                compare == cell.compare.val
                change == cell.percent_change.val
            IN  cell.compare.present =>
                    /\ cell.percent_change.present
                    /\ change[2] > 0
                    /\ FPos(compare) =>
                           change[1] * (main[2] * compare[1]) =
                               change[2] * (main[1] * compare[2] - compare[1] * main[2])
                    /\ (compare = Zero /\ FPos(main)) => change = One
                    /\ (compare = Zero /\ main = Zero) => change = Zero

\* one row of the table holds growth from a zero baseline, a zero against a
\* zero and a change against a positive baseline
C2_Witness ==
    /\ Ready
    /\ html_table.val.shown
    /\ \E g \in DOMAIN html_table.val.rows :
          LET row == html_table.val.rows[g]
          IN  /\ \E m \in Metrics :
                    /\ row[m].compare.present
                    /\ row[m].compare.val = Zero
                    /\ FPos(row[m].main)
                    /\ row[m].percent_change.val = One
              /\ \E m \in Metrics :
                    /\ row[m].compare.present
                    /\ FPos(row[m].compare.val)
                    /\ row[m].main # row[m].compare.val

(* C6: every region of the region table is in the allow-list
   regions_to_display, also when records of other regions pass the filter. *)
C6_AllowListedRegions ==
    (html_table.bound /\ html_table.val.shown) =>
        DOMAIN html_table.val.rows \subseteq Range(regions_to_display)

\* the main subset holds a record of a region outside the allow-list next to
\* one of a region inside it
C6_Witness ==
    /\ Ready
    /\ html_table.val.shown
    /\ \E r \in DOMAIN df_main.val : r.region = "Narnia"
    /\ "Victoria" \in DOMAIN html_table.val.rows

AllowListed(frame) == Unique(frame, "region") \cap Range(regions_to_display)

(* C9: with the comparison enabled and a non-empty comparison subset, every
   allow-listed region of the main subset is a row of the table, and a row
   carries a comparison entry for every metric exactly when its region is in
   the allow-listed comparison summary. *)
C9_ComparisonPerRegion ==
    (Ready /\ html_table.val.shown /\ compare_enabled /\ ~Empty(df_compare.val)) =>
        /\ DOMAIN html_table.val.rows = AllowListed(df_main.val)
        /\ \A g \in DOMAIN html_table.val.rows : \A m \in Metrics :
              LET cell == html_table.val.rows[g][m]
              IN  /\ cell.compare.present <=> g \in AllowListed(df_compare.val)
                  /\ cell.percent_change.present <=> g \in AllowListed(df_compare.val)

\* a region of the main summary is missing from the comparison summary, which
\* holds another region of the table
C9_Witness ==
    /\ Ready
    /\ html_table.val.shown
    /\ compare_enabled
    /\ \E g \in DOMAIN html_table.val.rows :
          /\ g \notin AllowListed(df_compare.val)
          /\ ~html_table.val.rows[g]["cost"].compare.present
    /\ \E g \in DOMAIN html_table.val.rows : html_table.val.rows[g]["cost"].compare.present

\* a feed holds rows; its date header is 'date' up to case and blanks
HasRows(feed) == feed.rows # EmptyBag
NamesDate(feed) == feed.date_col \in {"date", " Date "}

\* how often the frame must hold row r of feed: as often as the feed does
HoldsRowsOf(frame, feed) ==
    \A r \in DOMAIN feed.rows :
        \E x \in DOMAIN frame :
            /\ x.col = feed.date_col
            /\ [f \in DOMAIN r |-> x[f]] = r
            /\ frame[x] >= feed.rows[r]

NothingComputed ==
    /\ df = Unbound
    /\ campaign_options = Unbound
    /\ df_main = Unbound /\ df_compare = Unbound
    /\ kpis_main_total = Unbound /\ kpis_compare_total = Unbound
    /\ kpis_wtd = Unbound /\ kpis_mtd = Unbound /\ kpis_ytd = Unbound
    /\ period_metrics = Unbound /\ glance = Unbound /\ html_table = Unbound

(* C7: with both feeds empty, or no 'date' column after the column names are
   normalized, loading halts and nothing is computed afterwards; with exactly
   one feed empty the other is the record set and the execution goes on; with
   both non-empty the unified record set holds every row of both feeds, equal
   rows included, before the rows without a valid date are dropped. *)
C7_Loading ==
    pc # "start" =>
        LET fed == {f \in {df_excel, df_gsheet} : HasRows(f)}
            size == BagCardinality(df_excel.rows) + BagCardinality(df_gsheet.rows)
        IN  /\ (fed = {} \/ \A f \in fed : ~NamesDate(f)) =>
                   (pc = "halted" /\ NothingComputed)
            /\ pc = "halted" => NothingComputed
            /\ BagCardinality(df_combined.val) = size
            /\ \A f \in fed : HoldsRowsOf(df_combined.val, f)
            /\ (HasRows(df_excel) # HasRows(df_gsheet)) =>
                   \A f \in fed :
                       NamesDate(f) =>
                           /\ df.bound /\ campaign_options.bound
                           /\ ~Empty(df.val) =>
                                  (Ready /\ glance.bound /\ html_table.bound)

\* both feeds hold the same row under the same header, and the record set
\* holds it twice
C7_Witness ==
    /\ Ready
    /\ HasRows(df_excel) /\ HasRows(df_gsheet)
    /\ \E x \in DOMAIN df_combined.val : df_combined.val[x] = 2
    /\ \E r \in DOMAIN df.val : df.val[r] = 2

====
